---- MODULE Spec2Model ----
(***************************************************************************)
(* Skip-trace lookup service: the expiring SQLite cache of app.py (tables  *)
(* cache and property_detail_cache), the /search handler that fronts the   *)
(* upstream SkipTrace API with that cache, the query validation of         *)
(* SkipTraceClient.skip_trace, and the mapping of the raw upstream payload *)
(* to the record handed to the results template.                           *)
(*                                                                         *)
(* Representation.  A Python str is a sequence of one-character strings,   *)
(* so that filtering digits, upper-casing and stripping are computed.      *)
(* A Python dict is a function whose DOMAIN is the set of keys present.    *)
(* Nested JSON containers of the upstream payload are tagged               *)
(* ([t |-> "dict"|"list"|"null", v |-> ...]) because the upstream may send *)
(* null where the handler expects a container.  Time is the integer        *)
(* int(datetime.utcnow().timestamp()).                                     *)
(***************************************************************************)
EXTENDS Integers, Sequences, FiniteSets, TLC

VARIABLES
    db,        \* the SQLite file: [cache |-> rows, property_detail_cache |-> rows]
    now,       \* int(datetime.utcnow().timestamp())
    ticks,     \* number of clock advances so far (bounds the exploration)
    last,      \* the direct store call just made, if the clock has not moved since:
               \* its arguments, the rows it found under the key (a set) or what
               \* it returned (a get)
    pc,        \* per request: "ready" (no call in flight) or "upstream" (POST in flight)
    form,      \* per request: the submitted form of its current/latest /search
    events,    \* per request: what its current/latest /search did, in order
    outcome,   \* per request: what its latest /search handed to the caller
    returned,  \* per search key: the record the miss path last rendered
    query,     \* query derivation: the submission under study and a resubmission
    raw        \* normalization: the raw payload under study and its mapping

vars == <<db, now, ticks, last, pc, form, events, outcome, returned, query, raw>>

-----------------------------------------------------------------------------
(* Bounds of the exploration *)

MaxTicks == 2

(* Program constants *)

SKIP_TRACE_TTL == 86400
PHONE_DIGITS == 10
STATE_LEN == 2
ZIP5 == 5
ZIP9 == 9

-----------------------------------------------------------------------------
(* Python values *)

\* Python's None where a str is expected (a marker no character sequence equals)
None == <<"None">>

\* bool(x) of an Optional[str]
Truthy(s) == s # None /\ s # <<>>

\* dict.get(key, default)
Get(d, k, default) == IF k \in DOMAIN d THEN d[k] ELSE default

\* the empty dict {}
EmptyDict == [k \in {} |-> 0]

JNull == [t |-> "null"]
JDict(d) == [t |-> "dict", v |-> d]
JList(s) == [t |-> "list", v |-> s]

-----------------------------------------------------------------------------
(* The expiring key-value store: two tables of one SQLite file *)

\* state of the database after init_db on a fresh file
init_db == [cache |-> {}, property_detail_cache |-> {}]

\* expires_at = int((utcnow() + timedelta(seconds=ttl_seconds)).timestamp())
ExpiresAt(t, ttl_seconds) == t + ttl_seconds

\* REPLACE INTO cache (key, value, expires_at): key is the PRIMARY KEY, so the
\* row holding the same key is deleted before the new row is inserted
CacheInsertOnly(table, key, value, expires_at) ==
    table \cup {[key |-> key, value |-> value, expires_at |-> expires_at]}

ReplaceIntoCache(table, key, value, expires_at) ==
    {r \in table : r.key # key}
        \cup {[key |-> key, value |-> value, expires_at |-> expires_at]}

\* REPLACE INTO property_detail_cache (property_id, value, expires_at)
ReplaceIntoDetail(table, property_id, value, expires_at) ==
    {r \in table : r.property_id # property_id}
        \cup {[property_id |-> property_id, value |-> value, expires_at |-> expires_at]}

cache_set(d, key, value, ttl_seconds, t) ==
    [d EXCEPT !.cache = ReplaceIntoCache(@, key, value, ExpiresAt(t, ttl_seconds))]

detail_cache_set_WrongTable(d, property_id, value, ttl_seconds, t) ==
    [d EXCEPT !.cache = ReplaceIntoCache(@, property_id, value, ExpiresAt(t, ttl_seconds))]

detail_cache_set(d, property_id, value, ttl_seconds, t) ==
    [d EXCEPT !.property_detail_cache =
        ReplaceIntoDetail(@, property_id, value, ExpiresAt(t, ttl_seconds))]

\* what a get returns: Python None, or the decoded value
Absent == [found |-> FALSE]
Found(v) == [found |-> TRUE, value |-> v]

\* SELECT value, expires_at FROM cache WHERE key = ?; fetchone()
cache_get(d, key, t) ==
    LET rows == {r \in d.cache : r.key = key} IN
    IF rows = {} THEN Absent
    ELSE LET row == CHOOSE r \in rows : TRUE IN
         IF row.expires_at < t THEN Absent ELSE Found(row.value)

detail_cache_get(d, property_id, t) ==
    LET rows == {r \in d.property_detail_cache : r.property_id = property_id} IN
    IF rows = {} THEN Absent
    ELSE LET row == CHOOSE r \in rows : TRUE IN
         IF row.expires_at < t THEN Absent ELSE Found(row.value)

-----------------------------------------------------------------------------
(* Characters and strings *)

Digit == {"0", "1", "2", "3", "4", "5", "6", "7", "8", "9"}

LowerCase == <<"a", "b", "c", "d", "e", "f", "g", "h", "i", "j", "k", "l", "m",
               "n", "o", "p", "q", "r", "s", "t", "u", "v", "w", "x", "y", "z">>
UpperCase == <<"A", "B", "C", "D", "E", "F", "G", "H", "I", "J", "K", "L", "M",
               "N", "O", "P", "Q", "R", "S", "T", "U", "V", "W", "X", "Y", "Z">>

\* c.isdigit()
IsDigit(c) == c \in Digit

\* "".join(c for c in str(s) if c.isdigit())
DigitsOf(s) == SelectSeq(s, IsDigit)

\* c.upper() of one character
UpperChar(c) ==
    IF \E i \in 1..Len(LowerCase) : LowerCase[i] = c
    THEN UpperCase[CHOOSE i \in 1..Len(LowerCase) : LowerCase[i] = c]
    ELSE c

\* s.upper()
Upper(s) == [i \in 1..Len(s) |-> UpperChar(s[i])]

-----------------------------------------------------------------------------
(* /search: reading the form and deriving the cache key *)

\* form.get(name) or None
OrNone(s) == IF s = <<>> THEN None ELSE s

FormFields == {"first_name", "last_name", "email", "phone",
               "address", "city", "state", "zip_code"}

\* lines 159-170: the eight text fields (form.get(name) or None) and the two
\* checkboxes ("require_phone" in form)
ReadForm(f) ==
    [first_name |-> OrNone(f.first_name), last_name |-> OrNone(f.last_name),
     email |-> OrNone(f.email), phone |-> OrNone(f.phone),
     address |-> OrNone(f.address), city |-> OrNone(f.city),
     state |-> OrNone(f.state), zip_code |-> OrNone(f.zip_code),
     require_phone |-> f.require_phone, require_email |-> f.require_email]

\* hashlib.md5(json.dumps({...ten entries...}, sort_keys=True)).hexdigest() of the
\* values read.  json.dumps with sort_keys lists the entries in key order; the
\* digest is modelled by that serialization (digest collisions aside).
search_key_NoState(a) ==
    << <<"address", a.address>>, <<"city", a.city>>, <<"email", a.email>>,
       <<"first_name", a.first_name>>, <<"last_name", a.last_name>>,
       <<"phone", a.phone>>, <<"require_email", a.require_email>>,
       <<"require_phone", a.require_phone>>, <<"zip_code", a.zip_code>> >>

search_key(a) ==
    << <<"address", a.address>>, <<"city", a.city>>, <<"email", a.email>>,
       <<"first_name", a.first_name>>, <<"last_name", a.last_name>>,
       <<"phone", a.phone>>, <<"require_email", a.require_email>>,
       <<"require_phone", a.require_phone>>, <<"state", a.state>>,
       <<"zip_code", a.zip_code>> >>

\* the key /search derives for a submitted form
KeyOf(f) == search_key(ReadForm(f))

\* MatchRequirements(phones=require_phone, emails=require_email,
\*                   operator="and" if require_phone and require_email else "or")
MatchRequirements(require_phone, require_email) ==
    [phones |-> require_phone, emails |-> require_email,
     operator |-> IF require_phone /\ require_email THEN "and" ELSE "or"]

-----------------------------------------------------------------------------
(* SkipTraceClient.skip_trace: validation and the request payload *)

Raise(exc, msg) == [ok |-> FALSE, exc |-> exc, msg |-> msg]
Ok(v) == [ok |-> TRUE, value |-> v]

\* d[k] = v added to the dict d when cond holds
PutIf(cond, d, k, v) ==
    IF cond THEN [x \in DOMAIN d \cup {k} |-> IF x = k THEN v ELSE d[x]] ELSE d

\* the payload built by lines 93-147, or the ValueError raised on the way
BuildPayload(email, phone, first_name, last_name, address, unit, city, state, zip_code, match_requirements) ==
    LET clean_phone == DigitsOf(phone)
        clean_zip == DigitsOf(zip_code)
        anyAddress == Truthy(address) \/ Truthy(city) \/ Truthy(state) \/ Truthy(zip_code)
        p1 == PutIf(Truthy(email), EmptyDict, "email", email)
        p2 == PutIf(Truthy(phone), p1, "phone", clean_phone)
        p3 == PutIf(Truthy(first_name), p2, "first_name", first_name)
        p4 == PutIf(Truthy(last_name), p3, "last_name", last_name)
        p5 == PutIf(anyAddress /\ Truthy(address), p4, "address", address)
        p6 == PutIf(anyAddress /\ Truthy(unit), p5, "unit", unit)
        p7 == PutIf(anyAddress /\ Truthy(city), p6, "city", city)
        p8 == PutIf(anyAddress /\ Truthy(state), p7, "state", Upper(state))
        p9 == PutIf(anyAddress /\ Truthy(zip_code), p8, "zip", clean_zip)
        p10 == PutIf(TRUE, p9, "match_requirements", match_requirements)
        name_parts == Truthy(first_name) \/ Truthy(last_name)
    IN
    IF Truthy(phone) /\ Len(clean_phone) # PHONE_DIGITS
    THEN Raise("ValueError", "Phone number must be 10 digits")
    ELSE IF Truthy(state) /\ Len(state) # STATE_LEN
    THEN Raise("ValueError", "State must be a 2-letter code")
    ELSE IF Truthy(zip_code) /\ Len(clean_zip) \notin {ZIP5, ZIP9}
    THEN Raise("ValueError", "ZIP code must be 5 or 9 digits")
    ELSE IF ~(Truthy(email) \/ Truthy(phone) \/ name_parts \/ anyAddress)
    THEN Raise("ValueError", "At least one identifier (email, phone, name, or address) is required")
    ELSE Ok(p10)

\* the call search makes: client.skip_trace(first_name=..., ..., match_requirements=...)
\* up to the POST; unit, middle_name, name_prefix and name_suffix keep their default None
PreparedRequest(f) ==
    LET a == ReadForm(f) IN
    BuildPayload(a.email, a.phone, a.first_name, a.last_name, a.address, None,
                 a.city, a.state, a.zip_code,
                 MatchRequirements(a.require_phone, a.require_email))

-----------------------------------------------------------------------------
(* /search: mapping the raw API response to the record given to results.html *)

Whitespace == {" ", "\t", "\n"}

\* s.strip()
Strip(s) ==
    LET keep == {i \in 1..Len(s) : s[i] \notin Whitespace} IN
    IF keep = {} THEN <<>>
    ELSE SubSeq(s, CHOOSE i \in keep : \A j \in keep : i <= j,
                   CHOOSE i \in keep : \A j \in keep : j <= i)

Str_primary == <<"p", "r", "i", "m", "a", "r", "y">>
Str_personal == <<"p", "e", "r", "s", "o", "n", "a", "l">>

\* one entry of the names comprehension (lines 241-247)
MapName(name) ==
    [first_name |-> Get(name, "firstName", <<>>),
     last_name |-> Get(name, "lastName", <<>>),
     full_name |-> Get(name, "fullName", <<>>),
     type |-> Get(name, "type", Str_primary),
     last_seen |-> Get(name, "lastSeen", <<>>)]

\* f"{house} {preDir} {street} {postDir} {strType}".strip() (line 254)
Street(addr) ==
    Strip(Get(addr, "house", <<>>) \o <<" ">> \o Get(addr, "preDir", <<>>) \o <<" ">>
          \o Get(addr, "street", <<>>) \o <<" ">> \o Get(addr, "postDir", <<>>) \o <<" ">>
          \o Get(addr, "strType", <<>>))

\* the address mapping (lines 252-259)
MapAddress_NoLastSeen(addr) ==
    [formattedAddress |-> Get(addr, "formattedAddress", <<>>),
     street |-> Street(addr),
     city |-> Get(addr, "city", <<>>),
     state |-> Get(addr, "state", <<>>),
     zip |-> Get(addr, "zip", <<>>)]

MapAddress(addr) ==
    [formattedAddress |-> Get(addr, "formattedAddress", <<>>),
     street |-> Street(addr),
     city |-> Get(addr, "city", <<>>),
     state |-> Get(addr, "state", <<>>),
     zip |-> Get(addr, "zip", <<>>),
     last_seen |-> Get(addr, "lastSeen", <<>>)]

\* one entry of the addressHistory comprehension (lines 263-266)
MapHistory(addr) ==
    [formattedAddress |-> Get(addr, "formattedAddress", <<>>),
     last_seen |-> Get(addr, "lastSeen", <<>>)]

\* one entry of the phones comprehension (lines 270-275)
MapPhone(phone) ==
    [number |-> Get(phone, "phone", <<>>),
     phoneType |-> Get(phone, "phoneType", <<>>),
     isConnected |-> Get(phone, "isConnected", FALSE),
     last_seen |-> Get(phone, "lastSeen", <<>>)]

\* one entry of the emails comprehension (lines 279-282)
MapEmail(email) ==
    [email |-> Get(email, "email", <<>>),
     emailType |-> Get(email, "emailType", Str_personal)]

\* identity.get(key, []) where key is in identity, else the initial []; iterating
\* over a value that is not a list raises
ListAt(identity, key) ==
    IF key \notin DOMAIN identity THEN Ok(<<>>)
    ELSE IF identity[key].t # "list"
    THEN Raise("TypeError", "'NoneType' object is not iterable")
    ELSE Ok(identity[key].v)

MapNames(identity) ==
    LET l == ListAt(identity, "names") IN
    IF ~l.ok THEN l ELSE Ok([i \in 1..Len(l.value) |-> MapName(l.value[i])])

MapHistories(identity) ==
    LET l == ListAt(identity, "addressHistory") IN
    IF ~l.ok THEN l ELSE Ok([i \in 1..Len(l.value) |-> MapHistory(l.value[i])])

MapPhones(identity) ==
    LET l == ListAt(identity, "phones") IN
    IF ~l.ok THEN l ELSE Ok([i \in 1..Len(l.value) |-> MapPhone(l.value[i])])

MapEmails(identity) ==
    LET l == ListAt(identity, "emails") IN
    IF ~l.ok THEN l ELSE Ok([i \in 1..Len(l.value) |-> MapEmail(l.value[i])])

\* if 'address' in identity: the mapped address, else the initial {}
MapAddressOf(identity) ==
    IF "address" \notin DOMAIN identity THEN Ok(EmptyDict)
    ELSE IF identity["address"].t # "dict"
    THEN Raise("AttributeError", "'NoneType' object has no attribute 'get'")
    ELSE Ok(MapAddress(identity["address"].v))

\* lines 294-307: the confidence label from the mapped identity
MatchConfidence(identity) ==
    LET data_points == (IF identity.phones # <<>> THEN 1 ELSE 0)
                     + (IF identity.emails # <<>> THEN 1 ELSE 0)
                     + (IF DOMAIN identity.address # {} THEN 1 ELSE 0)
    IN IF data_points >= 2 THEN "high"
       ELSE IF data_points = 1 THEN "medium" ELSE "low"

\* lines 236-282: transformed_result['identity'], or the exception raised
MapIdentity(result) ==
    LET initial == [names |-> <<>>, address |-> EmptyDict, addressHistory |-> <<>>,
                    phones |-> <<>>, emails |-> <<>>]
    IN
    IF "output" \notin DOMAIN result THEN Ok(initial)
    ELSE IF result["output"].t # "dict"
    THEN Raise("TypeError", "argument of type 'NoneType' is not iterable")
    ELSE IF "identity" \notin DOMAIN result["output"].v THEN Ok(initial)
    ELSE IF result["output"].v["identity"].t # "dict"
    THEN Raise("TypeError", "argument of type 'NoneType' is not iterable")
    ELSE
        LET identity == result["output"].v["identity"].v
            names == MapNames(identity)
            address == MapAddressOf(identity)
            history == MapHistories(identity)
            phones == MapPhones(identity)
            emails == MapEmails(identity)
        IN
        IF ~names.ok THEN names
        ELSE IF ~address.ok THEN address
        ELSE IF ~history.ok THEN history
        ELSE IF ~phones.ok THEN phones
        ELSE IF ~emails.ok THEN emails
        ELSE Ok([names |-> names.value, address |-> address.value,
                 addressHistory |-> history.value, phones |-> phones.value,
                 emails |-> emails.value])

\* lines 285-291: transformed_result['demographics'], or the exception raised
MapDemographics(result) ==
    IF "output" \notin DOMAIN result THEN Ok(EmptyDict)
    ELSE IF result["output"].t # "dict"
    THEN Raise("TypeError", "argument of type 'NoneType' is not iterable")
    ELSE IF "demographics" \notin DOMAIN result["output"].v THEN Ok(EmptyDict)
    ELSE IF result["output"].v["demographics"].t # "dict"
    THEN Raise("AttributeError", "'NoneType' object has no attribute 'get'")
    ELSE LET demo == result["output"].v["demographics"].v IN
         Ok([age |-> Get(demo, "age", <<>>),
             gender |-> Get(demo, "gender", <<>>),
             dob |-> Get(demo, "dob", <<>>)])

\* lines 220-307: transformed_result, or the exception raised while building it
Transform(result) ==
    LET identity == MapIdentity(result)
        demographics == MapDemographics(result)
    IN
    IF ~identity.ok THEN identity
    ELSE IF ~demographics.ok THEN demographics
    ELSE Ok([match |-> Get(result, "match", FALSE),
             requestId |-> Get(result, "requestId", <<>>),
             requestDate |-> Get(result, "requestDate", <<>>),
             credits |-> Get(result, "credits", 0),
             identity |-> identity.value,
             demographics |-> demographics.value,
             match_confidence |-> MatchConfidence(identity.value)])

-----------------------------------------------------------------------------
(* Sample inputs *)

S_first == <<"J">>
S_last == <<"D">>
S_email == <<"a", "@", "b">>
S_address == <<"1", " ", "A">>
S_city == <<"X">>
S_phone == <<"5", "5", "5", "1", "2", "3", "4", "5", "6", "7">>
S_phone_dashed == <<"5", "5", "5", "-", "1", "2", "3", "-", "4", "5", "6", "7">>
S_phone_short == <<"1", "2", "3">>
S_state == <<"T", "X">>
S_state_lower == <<"t", "x">>
S_state_digits == <<"1", "2">>
S_state_long == <<"T", "E", "X">>
S_zip == <<"7", "8", "7", "0", "1">>
S_zip_plus4 == <<"7", "8", "7", "0", "1", "-", "1", "2", "3", "4">>
S_zip_short == <<"1", "2", "3">>

\* a submitted form with every text field empty and no checkbox ticked
BlankForm ==
    [first_name |-> <<>>, last_name |-> <<>>, email |-> <<>>, phone |-> <<>>,
     address |-> <<>>, city |-> <<>>, state |-> <<>>, zip_code |-> <<>>,
     require_phone |-> FALSE, require_email |-> FALSE]

\* the values each form field is drawn from
FieldValues ==
    [first_name |-> {<<>>, S_first}, last_name |-> {<<>>, S_last},
     email |-> {<<>>, S_email}, address |-> {<<>>, S_address},
     city |-> {<<>>, S_city},
     phone |-> {<<>>, S_phone, S_phone_dashed, S_phone_short},
     state |-> {<<>>, S_state, S_state_lower, S_state_digits, S_state_long},
     zip_code |-> {<<>>, S_zip, S_zip_plus4, S_zip_short},
     require_phone |-> BOOLEAN, require_email |-> BOOLEAN]

\* first submissions of the query derivation
QueryForms ==
    {[BlankForm EXCEPT !.first_name = fn, !.email = em, !.phone = ph,
                       !.state = st, !.zip_code = zp, !.require_phone = rp] :
        fn \in FieldValues.first_name, em \in FieldValues.email,
        ph \in FieldValues.phone, st \in FieldValues.state,
        zp \in FieldValues.zip_code, rp \in BOOLEAN}

\* forms submitted to /search by the requests
SearchForms ==
    {[BlankForm EXCEPT !.phone = S_phone_dashed],
     [BlankForm EXCEPT !.state = S_state_digits],
     [BlankForm EXCEPT !.zip_code = S_zip_short],
     BlankForm}

\* raw upstream payloads
P_name == [firstName |-> S_first, lastName |-> S_last]
P_phone == [phone |-> S_phone, isConnected |-> TRUE]
P_email == [email |-> S_email]
P_history == [formattedAddress |-> S_address]
P_address == [house |-> <<"1">>, street |-> <<"A">>, city |-> S_city, zip |-> S_zip]
P_demographics == [age |-> <<"4", "0">>]

\* an upstream address with every field the handler reads
P_address_full ==
    [formattedAddress |-> S_address, house |-> <<"1">>, preDir |-> <<"N">>,
     street |-> <<"A">>, postDir |-> <<"W">>, strType |-> <<"S", "t">>,
     city |-> S_city, state |-> S_state, zip |-> S_zip, lastSeen |-> <<"d">>]

P_identity ==
    [names |-> JList(<<P_name>>), address |-> JDict(P_address),
     addressHistory |-> JList(<<P_history>>), phones |-> JList(<<P_phone>>),
     emails |-> JList(<<P_email>>)]

P_full ==
    [match |-> TRUE, requestId |-> <<"r">>, requestDate |-> <<"d">>, credits |-> 1,
     output |-> JDict([identity |-> JDict(P_identity),
                       demographics |-> JDict(P_demographics)])]

P_null_names ==
    [match |-> TRUE, output |-> JDict([identity |-> JDict([names |-> JNull])])]

\* payloads in which a nested section is JSON null
P_null_phones ==
    [match |-> TRUE, output |-> JDict([identity |-> JDict([phones |-> JNull])])]

P_null_address ==
    [match |-> TRUE, output |-> JDict([identity |-> JDict([address |-> JNull])])]

P_null_demographics ==
    [match |-> TRUE, output |-> JDict([demographics |-> JNull])]

\* response bodies the upstream answers a /search POST with
GatewayPayloads == {EmptyDict, P_full, P_null_names}

\* ways the POST fails: connection error, timeout, non-2xx status, body not JSON
GatewayFailures == {"connection", "timeout", "http_status", "bad_json"}

\* dicts holding any subset of the entries of d
SubDicts(d) == {[k \in K |-> d[k]] : K \in SUBSET DOMAIN d}

\* raw payloads of the normalization study: every section and field present or not
RawPayloads ==
    LET tops == SubDicts([match |-> TRUE, requestId |-> <<"r">>, credits |-> 1])
        identities == SubDicts(P_identity)
        demos == {JDict(d) : d \in SubDicts([age |-> <<"4", "0">>, gender |-> <<"F">>])}
        outputs == {JDict(EmptyDict)}
                   \cup {JDict([identity |-> JDict(i)]) : i \in identities}
                   \cup {JDict([demographics |-> d]) : d \in demos}
                   \cup {JDict([identity |-> JDict(i), demographics |-> d]) :
                            i \in {EmptyDict, P_identity}, d \in demos}
    IN tops \cup {PutIf(TRUE, t, "output", o) : t \in {EmptyDict, [match |-> TRUE]},
                                                  o \in outputs}
            \cup {[output |-> JDict([identity |-> JDict([address |-> JDict(a)])])] :
                    a \in SubDicts(P_address_full)}
            \cup {P_null_names, P_null_phones, P_null_address, P_null_demographics}

\* keys, values and TTLs of the direct store calls
StoreKeys == {"k1", "k2"}
CacheValues == {[match |-> TRUE], [match |-> FALSE]}
DetailValues == {[id |-> "p1"]}
StoreTtls == {-1, 0, 1}

\* the requests in progress at a time: /search calls made one after the other
Requests == {"r1"}

-----------------------------------------------------------------------------
(* Initial state: a fresh database, no request made *)

NoCall == [op |-> "none"]
NoOutcome == [kind |-> "none"]
NoQuery == [stage |-> "none"]
NoRaw == [stage |-> "none"]

InitStore ==
    /\ db = init_db
    /\ now = 0
    /\ ticks = 0
    /\ last = NoCall

InitHandler ==
    /\ pc = [r \in Requests |-> "ready"]
    /\ form = [r \in Requests |-> BlankForm]
    /\ events = [r \in Requests |-> <<>>]
    /\ outcome = [r \in Requests |-> NoOutcome]
    /\ returned = EmptyDict

Init == InitStore /\ InitHandler /\ query = NoQuery /\ raw = NoRaw

\* the clock advances by d seconds
Tick(d) ==
    /\ ticks < MaxTicks
    /\ now' = now + d
    /\ ticks' = ticks + 1
    /\ last' = NoCall
    /\ UNCHANGED <<db, pc, form, events, outcome, returned, query, raw>>

-----------------------------------------------------------------------------
(* Direct calls of the store functions *)

handlerVars == <<pc, form, events, outcome, returned, query, raw>>

CacheSet(key, value, ttl_seconds) ==
    /\ db' = cache_set(db, key, value, ttl_seconds, now)
    /\ last' = [op |-> "set", ns |-> "skip_trace", key |-> key, value |-> value,
                ttl |-> ttl_seconds,
                before |-> {r \in db.cache : r.key = key}]
    /\ UNCHANGED <<now, ticks>>
    /\ UNCHANGED handlerVars

\* a get that deletes the row it finds expired
CacheGet_Evicting(key) ==
    /\ last' = [op |-> "get", ns |-> "skip_trace", key |-> key,
                result |-> cache_get(db, key, now)]
    /\ db' = [db EXCEPT !.cache = {r \in @ : r.key # key \/ ~(r.expires_at < now)}]
    /\ UNCHANGED <<now, ticks>>
    /\ UNCHANGED handlerVars

CacheGet(key) ==
    /\ last' = [op |-> "get", ns |-> "skip_trace", key |-> key,
                result |-> cache_get(db, key, now)]
    /\ UNCHANGED <<db, now, ticks>>
    /\ UNCHANGED handlerVars

DetailCacheSet(property_id, value, ttl_seconds) ==
    /\ db' = detail_cache_set(db, property_id, value, ttl_seconds, now)
    /\ last' = [op |-> "set", ns |-> "property_detail", key |-> property_id,
                value |-> value, ttl |-> ttl_seconds,
                before |-> {r \in db.property_detail_cache : r.property_id = property_id}]
    /\ UNCHANGED <<now, ticks>>
    /\ UNCHANGED handlerVars

DetailCacheGet(property_id) ==
    /\ last' = [op |-> "get", ns |-> "property_detail", key |-> property_id,
                result |-> detail_cache_get(db, property_id, now)]
    /\ UNCHANGED <<db, now, ticks>>
    /\ UNCHANGED handlerVars

NextStore ==
    \/ \E k \in StoreKeys, v \in CacheValues, ttl \in StoreTtls : CacheSet(k, v, ttl)
    \/ \E k \in StoreKeys : CacheGet(k)
    \/ \E k \in StoreKeys, v \in DetailValues, ttl \in StoreTtls : DetailCacheSet(k, v, ttl)
    \/ \E k \in StoreKeys : DetailCacheGet(k)
    \/ Tick(1)

SpecStore == Init /\ [][NextStore]_vars

-----------------------------------------------------------------------------
(* Query derivation: what /search computes from a submitted form *)

\* the key and the prepared upstream request of one submission
Derive(f) == [form |-> f, key |-> KeyOf(f), prepared |-> PreparedRequest(f)]

InitQuery ==
    /\ InitStore /\ InitHandler /\ raw = NoRaw
    /\ \E f \in QueryForms : query = [stage |-> "new", form |-> f]

Submit ==
    /\ query.stage = "new"
    /\ query' = [stage |-> "submitted", first |-> Derive(query.form)]
    /\ UNCHANGED <<db, now, ticks, last, pc, form, events, outcome, returned, raw>>

\* the form submitted again with one field set to a value of its own
Resubmit(field, value) ==
    /\ query.stage = "submitted"
    /\ query' = [stage |-> "resubmitted", first |-> query.first,
                 second |-> Derive([query.first.form EXCEPT ![field] = value])]
    /\ UNCHANGED <<db, now, ticks, last, pc, form, events, outcome, returned, raw>>

NextQuery ==
    \/ Submit
    \/ \E field \in DOMAIN FieldValues : \E value \in FieldValues[field] :
          Resubmit(field, value)

SpecQuery == InitQuery /\ [][NextQuery]_vars

-----------------------------------------------------------------------------
(* Normalization: what /search builds from a fetched payload *)

InitNormalize ==
    /\ InitStore /\ InitHandler /\ query = NoQuery
    /\ \E r \in RawPayloads : raw = [stage |-> "fetched", result |-> r]

Normalize ==
    /\ raw.stage = "fetched"
    /\ raw' = [stage |-> "mapped", result |-> raw.result,
               transformed |-> Transform(raw.result)]
    /\ UNCHANGED <<db, now, ticks, last, pc, form, events, outcome, returned, query>>

NextNormalize == Normalize

SpecNormalize == InitNormalize /\ [][NextNormalize]_vars

-----------------------------------------------------------------------------
(* The /search handler; the POST to the upstream API is where a request waits *)

storeVars == <<last, query, raw>>

\* `if not data`: None and the empty dict are both falsy
Falsy(data) == ~data.found \/ DOMAIN data.value = {}

\* lines 156-214 up to the POST: read the form, derive the key, look the key up,
\* and on a miss validate the query and send it
Search_Start(r, f) ==
    /\ pc[r] = "ready"
    /\ form' = [form EXCEPT ![r] = f]
    /\ LET data == cache_get(db, KeyOf(f), now)
           prepared == PreparedRequest(f)
       IN
       IF ~Falsy(data)
       THEN /\ outcome' = [outcome EXCEPT ![r] =
                   [kind |-> "result", via |-> "cache", value |-> data.value]]
            /\ events' = [events EXCEPT ![r] = <<"cache_get", "render_results">>]
            /\ pc' = pc
       ELSE IF ~prepared.ok
       THEN /\ outcome' = [outcome EXCEPT ![r] =
                   [kind |-> "error", exc |-> prepared.exc, msg |-> prepared.msg]]
            /\ events' = [events EXCEPT ![r] = <<"cache_get", prepared.exc, "render_error">>]
            /\ pc' = pc
       ELSE /\ outcome' = [outcome EXCEPT ![r] = NoOutcome]
            /\ events' = [events EXCEPT ![r] = <<"cache_get", "post">>]
            /\ pc' = [pc EXCEPT ![r] = "upstream"]
    /\ UNCHANGED <<db, now, ticks, returned>>
    /\ UNCHANGED storeVars

\* the exception skip_trace raises for a failed POST: a RequestException becomes a
\* RuntimeError; a body that is not JSON raises a RequestException or a plain
\* ValueError, depending on the version of requests
RaisedFor(failure) ==
    IF failure = "bad_json" THEN {"RuntimeError", "ValueError"} ELSE {"RuntimeError"}

\* the failure handled as if it were a result: the error is written to the cache
Search_UpstreamFails_Cached(r, failure, exc) ==
    /\ pc[r] = "upstream"
    /\ exc \in RaisedFor(failure)
    /\ pc' = [pc EXCEPT ![r] = "ready"]
    /\ db' = cache_set(db, KeyOf(form[r]), [error |-> failure], SKIP_TRACE_TTL, now)
    /\ outcome' = [outcome EXCEPT ![r] =
            [kind |-> "error", exc |-> exc, msg |-> "Skip trace request failed"]]
    /\ events' = [events EXCEPT ![r] = @ \o <<exc, "render_error">>]
    /\ UNCHANGED <<now, ticks, form, returned>>
    /\ UNCHANGED storeVars

\* lines 154-165 of the client and 311-318 of the handler: the POST fails
Search_UpstreamFails(r, failure, exc) ==
    /\ pc[r] = "upstream"
    /\ exc \in RaisedFor(failure)
    /\ pc' = [pc EXCEPT ![r] = "ready"]
    /\ outcome' = [outcome EXCEPT ![r] =
            [kind |-> "error", exc |-> exc, msg |-> "Skip trace request failed"]]
    /\ events' = [events EXCEPT ![r] = @ \o <<exc, "render_error">>]
    /\ UNCHANGED <<db, now, ticks, form, returned>>
    /\ UNCHANGED storeVars

\* lines 216-318: the POST returned result; cache it, map it, render it
Search_UpstreamReplies(r, result) ==
    /\ pc[r] = "upstream"
    /\ pc' = [pc EXCEPT ![r] = "ready"]
    /\ db' = cache_set(db, KeyOf(form[r]), result, SKIP_TRACE_TTL, now)
    /\ LET transformed == Transform(result) IN
       IF transformed.ok
       THEN /\ outcome' = [outcome EXCEPT ![r] =
                   [kind |-> "result", via |-> "upstream", value |-> transformed.value]]
            /\ events' = [events EXCEPT ![r] = @ \o <<"cache_set", "render_results">>]
            /\ returned' = PutIf(TRUE, returned, KeyOf(form[r]), transformed.value)
       ELSE /\ outcome' = [outcome EXCEPT ![r] =
                   [kind |-> "error", exc |-> transformed.exc, msg |-> transformed.msg]]
            /\ events' = [events EXCEPT ![r] =
                   @ \o <<"cache_set", transformed.exc, "render_error">>]
            /\ returned' = returned
    /\ UNCHANGED <<now, ticks, form>>
    /\ UNCHANGED storeVars

Next ==
    \/ \E r \in DOMAIN pc, f \in SearchForms : Search_Start(r, f)
    \/ \E r \in DOMAIN pc, failure \in GatewayFailures, exc \in {"RuntimeError", "ValueError"} :
          Search_UpstreamFails(r, failure, exc)
    \/ \E r \in DOMAIN pc, result \in GatewayPayloads : Search_UpstreamReplies(r, result)
    \/ \E d \in {1, SKIP_TRACE_TTL - 1, SKIP_TRACE_TTL} : Tick(d)

Spec == Init /\ [][Next]_vars

-----------------------------------------------------------------------------
(* Vocabulary of the properties *)

Letter == {LowerCase[i] : i \in 1..Len(LowerCase)} \cup {UpperCase[i] : i \in 1..Len(UpperCase)}

\* the validation rules of a Query, on the submitted form
NoIdentifyingFact(f) == \A fld \in FormFields : f[fld] = <<>>
BadPhone(f) == f.phone # <<>> /\ Len(SelectSeq(f.phone, IsDigit)) # 10
BadZip(f) == f.zip_code # <<>> /\ Len(SelectSeq(f.zip_code, IsDigit)) \notin {5, 9}
BadState(f) == f.state # <<>> /\ ~(Len(f.state) = 2 /\ \A i \in 1..Len(f.state) : f.state[i] \in Letter)
ViolatesRule(f) == NoIdentifyingFact(f) \/ BadPhone(f) \/ BadZip(f) \/ BadState(f)

\* the number of times e occurs in the event list es
Count(e, es) == Cardinality({i \in 1..Len(es) : es[i] = e})

\* request r makes a /search call in this step
Starts(r) == \E f \in SearchForms : Search_Start(r, f)

\* the cache holds an entry for key that has not reached its expiry / that has
LiveEntry(key) == \E row \in db.cache : row.key = key /\ now < row.expires_at
ExpiredEntry(key) == \E row \in db.cache : row.key = key /\ now >= row.expires_at

\* the latest /search of r ended with the upstream fetch failing
FetchFailed(r) ==
    /\ pc[r] = "ready"
    /\ outcome[r].kind = "error"
    /\ outcome[r].exc \in {"RuntimeError", "ValueError"}
    /\ Count("post", events[r]) > 0

-----------------------------------------------------------------------------
(* C1: a /search of a valid Query whose key has a cache entry younger than    *)
(* the 1-day TTL makes no upstream call, whatever payload was fetched; one    *)
(* whose entry has expired calls the upstream again.                          *)
C1_OneFetchPerTtlWindow ==
    [][\A r \in DOMAIN pc :
          (Starts(r) /\ ~ViolatesRule(form'[r])) =>
              /\ LiveEntry(KeyOf(form'[r])) => Count("post", events'[r]) = 0
              /\ ExpiredEntry(KeyOf(form'[r])) => Count("post", events'[r]) = 1]_vars

(* C2: a /search answered from the cache renders a normalized, scored record  *)
(* (identity, demographics, match_confidence), equal to the record the miss   *)
(* path rendered for the same key; every rendered result is such a record.    *)
C2_HitReturnsNormalizedRecord ==
    \A r \in DOMAIN pc :
        (outcome[r].kind = "result" /\ KeyOf(form[r]) \in DOMAIN returned) =>
            /\ {"identity", "demographics", "match_confidence"} \subseteq DOMAIN outcome[r].value
            /\ outcome[r].value = returned[KeyOf(form[r])]

(* C4: a /search whose Query violates a validation rule ends in the           *)
(* validation error, and neither reads the cache nor calls the upstream       *)
(* before that error.                                                         *)
C4_InvalidQueryRejectedFirst ==
    \A r \in DOMAIN pc :
        (events[r] # <<>> /\ ViolatesRule(form[r])) =>
            /\ Count("cache_get", events[r]) = 0
            /\ Count("post", events[r]) = 0
            /\ outcome[r].kind = "error"
            /\ outcome[r].exc = "ValueError"

(* C5: when the upstream fetch of a /search fails, that /search has called    *)
(* the upstream exactly once, hands the error to the caller and leaves both   *)
(* tables as they were; no /search calls the upstream twice; and a /search    *)
(* repeating the Query of a failed one calls the upstream again.              *)
C5_FailedFetchNotCached ==
    [][\A r \in DOMAIN pc :
          /\ (pc[r] = "upstream" /\ FetchFailed(r)') =>
                /\ db' = db
                /\ Count("post", events'[r]) = 1
                /\ Count("cache_set", events'[r]) = 0
                /\ events'[r][Len(events'[r])] = "render_error"
          /\ Count("post", events'[r]) <= 1
          /\ (FetchFailed(r) /\ Starts(r) /\ form'[r] = form[r]) =>
                /\ pc'[r] = "upstream"
                /\ Count("post", events'[r]) = 1]_vars

\* a /search has just failed at the upstream while the cache holds another entry
C5_Witness ==
    \E r \in DOMAIN pc :
        /\ FetchFailed(r)
        /\ outcome[r].exc = "RuntimeError"
        /\ db.cache # {}
        /\ \A row \in db.cache : row.key # KeyOf(form[r])

-----------------------------------------------------------------------------
(* Properties of the store, over the direct calls *)

\* the rows a namespace holds under a key
RowsOf(ns, key) ==
    IF ns = "skip_trace" THEN {r \in db.cache : r.key = key}
    ELSE {[key |-> r.property_id, value |-> r.value, expires_at |-> r.expires_at] :
             r \in {x \in db.property_detail_cache : x.property_id = key}}

(* C3: in both namespaces a get returns the stored value exactly when the     *)
(* time of the get is strictly before the entry's expiry (time of set + ttl); *)
(* at or after the expiry, and so right after a set with ttl <= 0, it         *)
(* returns absent.                                                            *)
C3_GetOnlyBeforeExpiry ==
    last.op = "get" =>
        /\ last.result.found =>
              \E row \in RowsOf(last.ns, last.key) :
                  now < row.expires_at /\ last.result.value = row.value
        /\ (\A row \in RowsOf(last.ns, last.key) : now >= row.expires_at) =>
              ~last.result.found

(* C8: a set replaces: right after set(k, v, ttl) the namespace holds exactly *)
(* one row for k, with value v and expiry (time of the set + ttl), whatever   *)
(* row k had before; a get of k at a time before a row's expiry returns that  *)
(* row's value; and no namespace ever holds two rows for one key.             *)
C8_SetReplaces ==
    /\ \A ns \in {"skip_trace", "property_detail"}, k \in StoreKeys :
          Cardinality(RowsOf(ns, k)) <= 1
    /\ last.op = "set" =>
          RowsOf(last.ns, last.key) =
              {[key |-> last.key, value |-> last.value, expires_at |-> now + last.ttl]}
    /\ last.op = "get" =>
          \A row \in RowsOf(last.ns, last.key) :
              now < row.expires_at => last.result = Found(row.value)

\* a set has just overwritten a row of the same key holding another value and expiry
C8_Witness ==
    /\ last.op = "set"
    /\ last.ns = "skip_trace"
    /\ \E old \in last.before :
          old.value # last.value /\ old.expires_at # now + last.ttl

(* C9: the namespaces never collide: a set in one namespace leaves the other  *)
(* namespace's table as it was, and a get in one namespace returns only       *)
(* values written in that namespace, also when both use the same key.         *)
C9_NamespacesDisjoint ==
    /\ [][/\ (last'.op = "set" /\ last'.ns = "skip_trace") =>
                db'.property_detail_cache = db.property_detail_cache
          /\ (last'.op = "set" /\ last'.ns = "property_detail") =>
                db'.cache = db.cache]_vars
    /\ [](last.op = "get" /\ last.result.found =>
            last.result.value \in (IF last.ns = "skip_trace" THEN CacheValues
                                   ELSE DetailValues))

\* both namespaces hold a live row under the same key and a get of it has answered
C9_Witness ==
    /\ last.op = "get"
    /\ last.result.found
    /\ RowsOf("skip_trace", last.key) # {}
    /\ RowsOf("property_detail", last.key) # {}

-----------------------------------------------------------------------------
(* Properties of the query derivation *)

AllDigits(str) == \A i \in 1..Len(str) : str[i] \in Digit
SameLettersIgnoringCase(a, b) ==
    /\ Len(a) = Len(b)
    /\ \A i \in 1..Len(a) :
          \/ a[i] = b[i]
          \/ \E j \in 1..Len(LowerCase) : {a[i], b[i]} = {LowerCase[j], UpperCase[j]}

(* C6: a Query with no identifying fact, a phone that is not 10 digits once   *)
(* reduced to digits, a zip that is not 5 or 9 digits, or a state that is not *)
(* exactly 2 letters ends in the validation error with nothing sent; a Query  *)
(* that passes is sent with phone and zip as digits and state in upper case.  *)
C6_InvalidQueryIsQueryError ==
    query.stage \in {"submitted", "resubmitted"} =>
        LET f == query.first.form
            p == query.first.prepared
        IN
        /\ ViolatesRule(f) => (~p.ok /\ p.exc = "ValueError")
        /\ ~ViolatesRule(f) =>
              /\ p.ok
              /\ f.phone # <<>> => (AllDigits(p.value["phone"]) /\ Len(p.value["phone"]) = 10)
              /\ f.zip_code # <<>> => (AllDigits(p.value["zip"]) /\ Len(p.value["zip"]) \in {5, 9})
              /\ f.state # <<>> =>
                    /\ SameLettersIgnoringCase(p.value["state"], f.state)
                    /\ \A i \in 1..Len(p.value["state"]) :
                          \A j \in 1..Len(LowerCase) : p.value["state"][i] # LowerCase[j]

\* both submissions pass validation
BothSent == query.first.prepared.ok /\ query.second.prepared.ok

(* C7 as stated: two submissions get the same key if and only if their        *)
(* normalized Queries (what is sent upstream: phone and zip as digits, state  *)
(* in upper case, the two requirement flags) agree on every field.            *)
C7_KeyIdentifiesNormalizedQuery ==
    (query.stage = "resubmitted" /\ BothSent) =>
        ((query.first.key = query.second.key)
            <=> (query.first.prepared.value = query.second.prepared.value))

(* C7 as amended: two submissions get the same key if and only if their       *)
(* forms agree, as typed, on each of the eight text fields and the two        *)
(* requirement flags; changing any single field changes the key.              *)
C7_KeyIdentifiesSubmittedForm ==
    query.stage = "resubmitted" =>
        ((query.first.key = query.second.key)
            <=> /\ \A fld \in FormFields : query.first.form[fld] = query.second.form[fld]
                /\ query.first.form.require_phone = query.second.form.require_phone
                /\ query.first.form.require_email = query.second.form.require_email)

\* two submissions that differ only in how the state is typed: the same Query is
\* sent upstream for both, under two keys
C7_Witness ==
    /\ query.stage = "resubmitted"
    /\ BothSent
    /\ query.first.form.state # query.second.form.state
    /\ query.first.prepared.value = query.second.prepared.value
    /\ query.first.key # query.second.key

-----------------------------------------------------------------------------
(* Properties of the normalization *)

TopKeys == {"match", "requestId", "requestDate", "credits", "identity",
            "demographics", "match_confidence"}
IdentityKeys == {"names", "address", "addressHistory", "phones", "emails"}
AddressKeys == {"formattedAddress", "street", "city", "state", "zip", "last_seen"}
DemographicsKeys == {"age", "gender", "dob"}
ListKeys == {"names", "addressHistory", "phones", "emails"}

\* the sections of a well-formed raw payload
HasOutput(result) == "output" \in DOMAIN result
HasIdentity(result) == HasOutput(result) /\ "identity" \in DOMAIN result["output"].v
IdentityOf(result) == result["output"].v["identity"].v
HasAddress(result) == HasIdentity(result) /\ "address" \in DOMAIN IdentityOf(result)
HasDemographics(result) == HasOutput(result) /\ "demographics" \in DOMAIN result["output"].v

\* what the empty payload {} is mapped to, but for the address and demographics sections
EmptyPayloadDefaults(t) ==
    /\ \A k \in ListKeys : t.identity[k] = <<>>
    /\ t.requestId = <<>> /\ t.requestDate = <<>>
    /\ t.match = FALSE
    /\ t.credits = 0
    /\ t.match_confidence = "low"

(* C10 as stated: whatever sections and fields the raw payload lacks, the     *)
(* mapped record holds every key of the schema, address.{formattedAddress,    *)
(* street, city, state, zip, last_seen} and demographics.{age, gender, dob}   *)
(* included; {} maps to empty lists, "" strings, match false, credits 0 and   *)
(* match_confidence "low".                                                    *)
C10_SchemaFullyPopulated ==
    (raw.stage = "mapped" /\ raw.transformed.ok) =>
        LET t == raw.transformed.value IN
        /\ DOMAIN t = TopKeys
        /\ DOMAIN t.identity = IdentityKeys
        /\ DOMAIN t.identity.address = AddressKeys
        /\ DOMAIN t.demographics = DemographicsKeys
        /\ DOMAIN raw.result = {} =>
              /\ EmptyPayloadDefaults(t)
              /\ \A k \in AddressKeys : t.identity.address[k] = <<>>
              /\ \A k \in DemographicsKeys : t.demographics[k] = <<>>

(* C10 as amended: the mapped record always holds the seven top-level keys    *)
(* and the five identity keys, a field the payload lacks being "", [], false  *)
(* or 0; identity.address holds its six keys when the payload has             *)
(* output.identity.address and is the empty object otherwise; demographics    *)
(* holds its three keys when the payload has output.demographics and is the   *)
(* empty object otherwise; {} maps to empty lists, "" request fields, match   *)
(* false, credits 0, match_confidence "low", and both objects empty.          *)
C10_SchemaPopulatedPerSection ==
    (raw.stage = "mapped" /\ raw.transformed.ok) =>
        LET t == raw.transformed.value
            result == raw.result
        IN
        /\ DOMAIN t = TopKeys
        /\ DOMAIN t.identity = IdentityKeys
        /\ DOMAIN t.identity.address = (IF HasAddress(result) THEN AddressKeys ELSE {})
        /\ DOMAIN t.demographics = (IF HasDemographics(result) THEN DemographicsKeys ELSE {})
        /\ "match" \notin DOMAIN result => t.match = FALSE
        /\ "credits" \notin DOMAIN result => t.credits = 0
        /\ "requestId" \notin DOMAIN result => t.requestId = <<>>
        /\ "requestDate" \notin DOMAIN result => t.requestDate = <<>>
        /\ \A k \in ListKeys :
              (~HasIdentity(result) \/ k \notin DOMAIN IdentityOf(result)) => t.identity[k] = <<>>
        /\ HasAddress(result) =>
              LET addr == IdentityOf(result)["address"].v IN
              /\ \A k \in {"formattedAddress", "city", "state", "zip"} :
                    k \notin DOMAIN addr => t.identity.address[k] = <<>>
              /\ "lastSeen" \notin DOMAIN addr => t.identity.address.last_seen = <<>>
        /\ HasDemographics(result) =>
              \A k \in DemographicsKeys :
                  k \notin DOMAIN result["output"].v["demographics"].v => t.demographics[k] = <<>>
        /\ DOMAIN result = {} => EmptyPayloadDefaults(t)

\* the empty payload {} has been mapped
C10_Witness ==
    /\ raw.stage = "mapped"
    /\ DOMAIN raw.result = {}
    /\ raw.transformed.ok
    /\ DOMAIN raw.transformed.value.identity.address = {}

-----------------------------------------------------------------------------
(* Properties of the confidence label *)

\* the facets of a mapped identity: an address counts when one of its
\* formattedAddress, city, state and zip is not empty
AddressPresent(address) ==
    \E k \in {"formattedAddress", "city", "state", "zip"} \cap DOMAIN address :
        address[k] # <<>>

Facets(identity) ==
    (IF identity.phones # <<>> THEN 1 ELSE 0)
    + (IF identity.emails # <<>> THEN 1 ELSE 0)
    + (IF AddressPresent(identity.address) THEN 1 ELSE 0)

(* C11: match_confidence is decided by three facets of the mapped identity    *)
(* (phones non-empty, emails non-empty, address with one of formattedAddress, *)
(* city, state, zip non-empty): two or more give "high", exactly one gives    *)
(* "medium", none gives "low".                                                *)
C11_ConfidenceCountsFacets ==
    (raw.stage = "mapped" /\ raw.transformed.ok) =>
        LET t == raw.transformed.value
            n == Facets(t.identity)
        IN t.match_confidence =
              (IF n >= 2 THEN "high" ELSE IF n = 1 THEN "medium" ELSE "low")

(* C12: mapping a fetched payload never raises: whatever nested section or    *)
(* field is missing or null, the mapping yields a record, with the empty list *)
(* for a list section that is not a list and the empty object for an address  *)
(* or demographics section that is not an object.                             *)
C12_NormalizationNeverRaises ==
    raw.stage = "mapped" =>
        /\ raw.transformed.ok
        /\ \A k \in ListKeys :
              (HasIdentity(raw.result) /\ k \in DOMAIN IdentityOf(raw.result)
                  /\ IdentityOf(raw.result)[k].t # "list")
                      => raw.transformed.value.identity[k] = <<>>

-----------------------------------------------------------------------------
(* Concurrent /search calls: the server handles each request in a thread of   *)
(* its own, the threads sharing only the SQLite file.  A request holds no     *)
(* lock between its cache_get and its cache_set; each store call is one       *)
(* SQLite transaction.                                                        *)

ConcurrentRequests == {"r1", "r2"}

\* two valid Queries
ConcurrentForms ==
    {[BlankForm EXCEPT !.phone = S_phone_dashed], [BlankForm EXCEPT !.email = S_email]}

ConcurrentPayloads == {P_full}

InitConcurrent ==
    /\ InitStore
    /\ pc = [r \in ConcurrentRequests |-> "ready"]
    /\ form = [r \in ConcurrentRequests |-> BlankForm]
    /\ events = [r \in ConcurrentRequests |-> <<>>]
    /\ outcome = [r \in ConcurrentRequests |-> NoOutcome]
    /\ returned = EmptyDict
    /\ query = NoQuery
    /\ raw = NoRaw

\* the clock moves by seconds only: every step lies within one TTL window
NextConcurrent ==
    \/ \E r \in DOMAIN pc, f \in ConcurrentForms : Search_Start(r, f)
    \/ \E r \in DOMAIN pc : Search_UpstreamFails(r, "timeout", "RuntimeError")
    \/ \E r \in DOMAIN pc, result \in ConcurrentPayloads : Search_UpstreamReplies(r, result)
    \/ Tick(1)

SpecConcurrent == InitConcurrent /\ [][NextConcurrent]_vars

(* C13: among concurrent /search calls inside one TTL window, no two are      *)
(* waiting on an upstream POST for the same key at once: a Query whose key    *)
(* has no valid entry is fetched by one request only.                         *)
C13_OneFetchPerKeyConcurrently ==
    \A r \in DOMAIN pc, q \in DOMAIN pc :
        (r # q /\ pc[r] = "upstream" /\ pc[q] = "upstream")
            => KeyOf(form[r]) # KeyOf(form[q])

-----------------------------------------------------------------------------
(* Reads of the store *)

\* what a get of key in namespace ns answers in the current state
GetOf(ns, key) ==
    IF ns = "skip_trace" THEN cache_get(db, key, now) ELSE detail_cache_get(db, key, now)

\* this step is a set of key in namespace ns
SetsKey(ns, key) == last'.op = "set" /\ last'.ns = ns /\ last'.key = key

(* C14: a get leaves both tables as they were (an expired row is not          *)
(* deleted); and a key whose row has expired, so that a get of it answers     *)
(* absent, keeps that row and keeps answering absent through every step that  *)
(* is not a set of that key in that namespace.                                *)
C14_ReadLeavesStore ==
    [][/\ last'.op = "get" => db' = db
       /\ \A row \in db.cache :
             (~GetOf("skip_trace", row.key).found /\ ~SetsKey("skip_trace", row.key))
                 => (row \in db'.cache /\ ~GetOf("skip_trace", row.key)'.found)
       /\ \A row \in db.property_detail_cache :
             (~GetOf("property_detail", row.property_id).found
                 /\ ~SetsKey("property_detail", row.property_id))
                 => (row \in db'.property_detail_cache
                        /\ ~GetOf("property_detail", row.property_id)'.found)]_vars

\* a get has answered absent for a key whose expired row is still in the table
C14_Witness ==
    /\ last.op = "get"
    /\ ~last.result.found
    /\ RowsOf(last.ns, last.key) # {}
    /\ \A row \in RowsOf(last.ns, last.key) : row.expires_at < now

-----------------------------------------------------------------------------
(* Properties of the street line *)

NotSpace(c) == c \notin Whitespace

\* the five street tokens of an upstream address, in order, absent ones empty
StreetTokens(addr) ==
    Get(addr, "house", <<>>) \o Get(addr, "preDir", <<>>) \o Get(addr, "street", <<>>)
        \o Get(addr, "postDir", <<>>) \o Get(addr, "strType", <<>>)

(* C15: the mapped street is the house, preDir, street, postDir and strType   *)
(* tokens in that order, absent ones empty, separated by single spaces: it    *)
(* has no two consecutive spaces and no leading or trailing whitespace,       *)
(* whichever tokens are present.                                              *)
C15_StreetSingleSpaced ==
    (raw.stage = "mapped" /\ raw.transformed.ok /\ HasAddress(raw.result)) =>
        LET street == raw.transformed.value.identity.address.street
            addr == IdentityOf(raw.result)["address"].v
        IN
        /\ SelectSeq(street, NotSpace) = StreetTokens(addr)
        /\ \A i \in 1..(Len(street) - 1) : ~(street[i] = " " /\ street[i + 1] = " ")
        /\ street # <<>> => (NotSpace(street[1]) /\ NotSpace(street[Len(street)]))

-----------------------------------------------------------------------------
(* Errors and the cache *)

(* C16: a /search that ends by rendering an error, whatever raised it, has    *)
(* written nothing to the cache; so every row of the cache table was written  *)
(* by a /search that rendered a result for that key.                          *)
C16_ErrorLeavesCacheUntouched ==
    /\ \A r \in DOMAIN pc :
          (pc[r] = "ready" /\ outcome[r].kind = "error")
              => Count("cache_set", events[r]) = 0
    /\ \A row \in db.cache : row.key \in DOMAIN returned

====
